---- MODULE Spec2Model ----
(***************************************************************************)
(* Interactive selection subsystem of the DXF viewer:                      *)
(*   BoundingBoxManager (src/unnamed/part_000) - the registry of one       *)
(*     hit-testable proxy mesh per entity, and                             *)
(*   Select (src/unnamed/part_001) - the pointer/keyboard controller that  *)
(*     owns the selection set and emits the "select" notification.         *)
(* DxfViewer (src/src/DxfViewer.js) is the host: Load creates the registry *)
(* and the controller, Clear and Destroy dispose them, ShowLayer shows and *)
(* hides the objects of a layer.                                           *)
(* The raycaster (../tools/raycaster) is an external collaborator: its     *)
(* answer to a hit-test is an input, drawn when the hit-test returns, at   *)
(* any step after the one that issued it.                                  *)
(***************************************************************************)
EXTENDS Integers, Sequences, FiniteSets, Bags, TLC

\* ------------------------------------------------------------------ bounds
\* Most meshes the registry list holds (createBoundingBox calls that succeed).
MaxMeshes == 3
\* Most hit-tests in flight at once.
MaxPending == 2
\* Most Load calls made on one viewer.
MaxLoads == 3
\* Console warnings are counted up to this many ("this many or more").
MaxWarnings == 2

\* ------------------------------------------------------------ environment
\* The uuids of the document's entities.
EntityUUIDs == {"A", "B", "C"}

\* JavaScript's two empty values; the code compares them with ===.
Null == "null"
Undefined == "undefined"

\* The interactive surface, in pixels.
Container == [clientWidth |-> 2, clientHeight |-> 1]

\* The orthographic camera looking down -z.  z values are in tenths so that
\* near = 0.1 stays an integer.
Camera ==
  [isOrthographicCamera |-> TRUE, isPerspectiveCamera |-> FALSE,
   left |-> -4, right |-> 4, top |-> 2, bottom |-> -2,
   positionZ |-> 10, near |-> 1, far |-> 20]

\* A perspective camera on the same axis: field of view 90 degrees (the tangent
\* of its half is 1), aspect 2, near = 0.5 and far = 2.0 in tenths.
PerspectiveCamera ==
  [isOrthographicCamera |-> FALSE, isPerspectiveCamera |-> TRUE,
   tanHalfFov |-> 1, aspect |-> 2,
   positionZ |-> 10, near |-> 5, far |-> 20]

\* The layer of each entity of the document, and the names ShowLayer is called
\* with: the document's layers and one it does not have.
EntityLayer == [A |-> "0", B |-> "0", C |-> "1"]
LayerNames == {"0", "1"}
ShowLayerNames == LayerNames \cup {"missing"}

\* Pointer positions relative to the container's top-left corner.
Points == [x : 0..Container.clientWidth, y : 0..Container.clientHeight]

\* Entity records and bounding definitions handed to createBoundingBox.
\*   A: 2x2 at (-3,0)                         -> bounds [-4,-2] x [-1,1]
\*   B: 2x2 at (0,0), xScale 2                -> bounds [-2, 2] x [-1,1]
\*   C: 2x1 rotated 90, local centre (1,0),
\*      at (-1,-1)                            -> bounds [-1.5,-0.5] x [-1,1]
Entities ==
  [A |-> [uuid |-> "A", position |-> [x |-> -3, y |-> 0, z |-> 0],
          xScale |-> 1, yScale |-> 1, rotation |-> 0],
   B |-> [uuid |-> "B", position |-> [x |-> 0, y |-> 0, z |-> 0],
          xScale |-> 2, yScale |-> 1, rotation |-> 0],
   C |-> [uuid |-> "C", position |-> [x |-> -1, y |-> -1, z |-> 0],
          xScale |-> 1, yScale |-> 1, rotation |-> 90]]

BoundingBoxDefs ==
  [A |-> [width |-> 2, height |-> 2, x |-> 0, y |-> 0],
   B |-> [width |-> 2, height |-> 2, x |-> 0, y |-> 0],
   C |-> [width |-> 2, height |-> 1, x |-> 1, y |-> 0]]

\* ------------------------------------------------------------------ state
VARIABLES
  boundingBoxMeshList,  \* BoundingBoxManager.boundingBoxMeshList: Seq of meshes
  meshMap,              \* BoundingBoxManager.meshMap: uuid -> index in the list, 0 = absent
  scene,                \* BoundingBoxManager.scene: entityUUID of each mesh added, in order
  selectedEntities,     \* Select.selectedEntities
  hoveredEntityUUID,    \* Select.hoveredEntityUUID
  isMouseDown,          \* Select._isMouseDown
  isDragging,           \* Select._isDragging
  startPoint,           \* Select._startPoint
  selectionBoxElement,  \* Select._selectionBoxElement is not null
  pending,              \* hit-tests issued and not yet returned (a bag)
  movedSincePress,      \* a pointer move was handled with the button down since the last
                        \* accepted press (history, not a field of Select)
  camera,               \* Select.camera, given to the constructor
  consoleWarnings,      \* console.warn calls Select made so far, counted up to MaxWarnings
  layerObjectsVisible,  \* DxfViewer.layers: layer name -> the visible flag of its objects
  viewer,               \* DxfViewer: renderer, worker, selector and boundingBoxManager fields,
                        \* every Select and BoundingBoxManager it created, Load calls in flight
  listening,            \* Select's event listeners are attached (not yet disposed)
  delivered,            \* the payload object the "select" listener received last, if any
  last                  \* the handler step taken last, its inputs and what it emitted

vars ==
  <<boundingBoxMeshList, meshMap, scene, selectedEntities, hoveredEntityUUID, isMouseDown,
    isDragging, startPoint, selectionBoxElement, pending, movedSincePress, camera, consoleWarnings,
    layerObjectsVisible, viewer, listening, delivered, last>>

registry == <<boundingBoxMeshList, meshMap, scene>>
pointerState == <<isMouseDown, isDragging, startPoint, selectionBoxElement>>

\* The record kept in last: the step, the uuid and modifier it acted on, the
\* selection it started from, the "select" notifications it emitted and, for a
\* drag, the release point.
Step(op, uuid, isMultiSelect, point, emitted) ==
  [op |-> op, uuid |-> uuid, isMultiSelect |-> isMultiSelect, before |-> selectedEntities,
   point |-> point, emitted |-> emitted]

\* The point recorded by the steps that read no pointer position.
NoPoint == [x |-> 0, y |-> 0]

\* --------------------------------------------------- BoundingBoxManager
\* Sine and cosine of the rotations the document uses (multiples of 90 degrees).
Cos(deg) == CASE deg = 0 -> 1 [] deg = 90 -> 0 [] deg = 180 -> -1 [] deg = 270 -> 0
Sin(deg) == CASE deg = 0 -> 0 [] deg = 90 -> 1 [] deg = 180 -> 0 [] deg = 270 -> -1

Abs(n) == IF n < 0 THEN -n ELSE n

\* The mesh createBoundingBox builds: default material, three.js's default
\* visible = true, scale, rotation and position as computed at lines 85-108.
CreateMesh(entity, boundingBoxDef) ==
  LET scaleX == boundingBoxDef.width * entity.xScale
      scaleY == boundingBoxDef.height * entity.yScale
      rotX == boundingBoxDef.x * Cos(entity.rotation) - boundingBoxDef.y * Sin(entity.rotation)
      rotY == boundingBoxDef.x * Sin(entity.rotation) + boundingBoxDef.y * Cos(entity.rotation)
      localCenter == IF entity.rotation # 0
                     THEN [x |-> rotX * entity.xScale, y |-> rotY * entity.yScale]
                     ELSE [x |-> boundingBoxDef.x * entity.xScale,
                           y |-> boundingBoxDef.y * entity.yScale]
  IN [entityUUID |-> entity.uuid,
      material |-> "default",
      visible |-> TRUE,
      scale |-> [x |-> scaleX, y |-> scaleY],
      rotation |-> entity.rotation,
      position |-> [x |-> entity.position.x + localCenter.x,
                    y |-> entity.position.y + localCenter.y,
                    z |-> entity.position.z]]

\* Variant: the hovered flag is tested before the selected flag.
SetVisualState_HoverFirst(meshes, entityUUID, selected, hovered) ==
  IF meshMap[entityUUID] = 0
  THEN meshes
  ELSE [meshes EXCEPT ![meshMap[entityUUID]] =
          IF hovered THEN [@ EXCEPT !.material = "hover", !.visible = TRUE]
          ELSE IF selected THEN [@ EXCEPT !.material = "selected", !.visible = TRUE]
          ELSE [@ EXCEPT !.material = "default", !.visible = FALSE]]

\* setVisualState on the mesh the map holds for entityUUID; nothing for an
\* unregistered uuid.
SetVisualState(meshes, entityUUID, selected, hovered) ==
  IF meshMap[entityUUID] = 0
  THEN meshes
  ELSE [meshes EXCEPT ![meshMap[entityUUID]] =
          IF selected THEN [@ EXCEPT !.material = "selected", !.visible = TRUE]
          ELSE IF hovered THEN [@ EXCEPT !.material = "hover", !.visible = TRUE]
          ELSE [@ EXCEPT !.material = "default", !.visible = FALSE]]

\* getMesh / meshMap.has
HasMesh(entityUUID) == entityUUID \in DOMAIN meshMap /\ meshMap[entityUUID] # 0

\* The uuids the list enumerates.
ListedUUIDs == {boundingBoxMeshList[i].entityUUID : i \in DOMAIN boundingBoxMeshList}

\* --------------------------------------------------------------- Select
\* A JavaScript truthiness test on a uuid-or-empty value.
Truthy(v) == v # Null /\ v # Undefined /\ v # ""

\* The selection set together with the meshes its operations restyle.
Sel(sel, meshes) == [sel |-> sel, meshes |-> meshes]

\* select(entityUUID), lines 250-255
Select(st, entityUUID) ==
  IF ~Truthy(entityUUID) \/ entityUUID \in st.sel
  THEN st
  ELSE Sel(st.sel \cup {entityUUID}, SetVisualState(st.meshes, entityUUID, TRUE, FALSE))

\* Variant: deselect returns early for a uuid the registry has no mesh for.
Deselect_IgnoresUnregistered(st, entityUUID) ==
  IF ~Truthy(entityUUID) \/ entityUUID \notin st.sel \/ meshMap[entityUUID] = 0
  THEN st
  ELSE Sel(st.sel \ {entityUUID},
           SetVisualState(st.meshes, entityUUID, FALSE, hoveredEntityUUID = entityUUID))

\* Variant: a deselected mesh always returns to the default state, hovered or not.
Deselect_AlwaysDefault(st, entityUUID) ==
  IF ~Truthy(entityUUID) \/ entityUUID \notin st.sel
  THEN st
  ELSE Sel(st.sel \ {entityUUID}, SetVisualState(st.meshes, entityUUID, FALSE, FALSE))

\* deselect(entityUUID), lines 261-268
Deselect(st, entityUUID) ==
  IF ~Truthy(entityUUID) \/ entityUUID \notin st.sel
  THEN st
  ELSE Sel(st.sel \ {entityUUID},
           SetVisualState(st.meshes, entityUUID, FALSE, hoveredEntityUUID = entityUUID))

\* uuids.forEach((uuid) => this.deselect(uuid))
RECURSIVE DeselectEach(_, _)
DeselectEach(st, uuids) ==
  IF uuids = {} THEN st
  ELSE LET uuid == CHOOSE u \in uuids : TRUE
       IN DeselectEach(Deselect(st, uuid), uuids \ {uuid})

\* uuids.forEach((uuid) => this.select(uuid))
RECURSIVE SelectEach(_, _)
SelectEach(st, uuids) ==
  IF uuids = {} THEN st
  ELSE LET uuid == CHOOSE u \in uuids : TRUE
       IN SelectEach(Select(st, uuid), uuids \ {uuid})

\* Variant: the entity under the pointer stays selected.
DeselectAll_KeepsHovered(st) == DeselectEach(st, st.sel \ {hoveredEntityUUID})

\* deselectAll(), lines 271-275: iterates a copy of the set
DeselectAll(st) == DeselectEach(st, st.sel)

\* selectAll(), lines 278-286: walks the registry's list from mesh i on
RECURSIVE SelectFrom(_, _)
SelectFrom(st, i) ==
  IF i > Len(boundingBoxMeshList) THEN st
  ELSE LET entityUUID == boundingBoxMeshList[i].entityUUID
       IN SelectFrom(IF Truthy(entityUUID) THEN Select(st, entityUUID) ELSE st, i + 1)

\* Variant: only the meshes whose visible flag is set are selected (the check
\* the comment at line 282 suggests).
SelectAll_VisibleOnly(st) ==
  SelectEach(st, {boundingBoxMeshList[i].entityUUID :
                    i \in {j \in DOMAIN boundingBoxMeshList : boundingBoxMeshList[j].visible}})

\* Variant: every entity of the document is selected, registered or not.
SelectAll_WholeDocument(st) == SelectEach(st, EntityUUIDs)

SelectAll(st) == SelectFrom(st, 1)

\* Variant: a plain click always ends with the clicked entity selected (the
\* "unless it was the only one selected" test of line 203 dropped).
PerformSingleClickSelection_NoToggleOff(st, clickedUUID, isMultiSelect) ==
  IF isMultiSelect
  THEN IF clickedUUID \in st.sel THEN Deselect(st, clickedUUID) ELSE Select(st, clickedUUID)
  ELSE Select(DeselectAll(st), clickedUUID)

\* Variant: a modifier click only ever adds (the isSelected branch of line 192
\* dropped).
PerformSingleClickSelection_AddOnly(st, clickedUUID, isMultiSelect) ==
  IF isMultiSelect
  THEN Select(st, clickedUUID)
  ELSE LET cleared == DeselectAll(st)
       IN IF ~(Cardinality(st.sel) = 1 /\ clickedUUID \in st.sel)
          THEN Select(cleared, clickedUUID)
          ELSE cleared

\* Variant: a plain click adds to what is selected (the deselectAll of line 201
\* dropped).
PerformSingleClickSelection_NoClear(st, clickedUUID, isMultiSelect) ==
  IF isMultiSelect
  THEN IF clickedUUID \in st.sel THEN Deselect(st, clickedUUID) ELSE Select(st, clickedUUID)
  ELSE IF ~(Cardinality(st.sel) = 1 /\ clickedUUID \in st.sel)
       THEN Select(st, clickedUUID)
       ELSE DeselectAll(st)

\* _performSingleClickSelection(clickedUUID, isMultiSelect), lines 187-207
PerformSingleClickSelection(st, clickedUUID, isMultiSelect) ==
  LET isSelected == clickedUUID \in st.sel
  IN IF isMultiSelect
     THEN IF isSelected THEN Deselect(st, clickedUUID) ELSE Select(st, clickedUUID)
     ELSE LET previouslySelected == st.sel
              cleared == DeselectAll(st)
          IN IF ~(Cardinality(previouslySelected) = 1 /\ isSelected)
             THEN Select(cleared, clickedUUID)
             ELSE cleared

\* ------------------------------------------------- box-selection geometry
\* Boxes hold x and y in half units (so that a centre +- half a size stays an
\* integer) and z in tenths.
Min(S) == CHOOSE m \in S : \A n \in S : m <= n
Max(S) == CHOOSE m \in S : \A n \in S : m >= n

\* Screen x to normalized device x, as a numerator over clientWidth:
\* (x / clientWidth) * 2 - 1
NdcX(x) == 2 * x - Container.clientWidth
\* Screen y to normalized device y, as a numerator over clientHeight:
\* -(y / clientHeight) * 2 + 1
NdcY(y) == Container.clientHeight - 2 * y

\* The distance from the camera of the plane at ndc z: -1 is the near plane,
\* +1 the far plane.
Depth(ndcZ) == IF ndcZ = -1 THEN camera.near ELSE camera.far

\* Vector3.unproject(camera), x and y in half units.  Orthographic:
\* world = (ndc * (right - left) + (right + left)) / 2 at every depth.
\* Perspective: world = ndc * depth * tan(fov / 2) * aspect (x), without the
\* aspect for y; depth is in tenths.
UnprojectX(ndcNum, ndcZ) ==
  IF camera.isOrthographicCamera
  THEN (ndcNum * (camera.right - camera.left)) \div Container.clientWidth
         + (camera.right + camera.left)
  ELSE (ndcNum * 2 * Depth(ndcZ) * camera.tanHalfFov * camera.aspect)
         \div (Container.clientWidth * 10)
UnprojectY(ndcNum, ndcZ) ==
  IF camera.isOrthographicCamera
  THEN (ndcNum * (camera.top - camera.bottom)) \div Container.clientHeight
         + (camera.top + camera.bottom)
  ELSE (ndcNum * 2 * Depth(ndcZ) * camera.tanHalfFov) \div (Container.clientHeight * 10)
UnprojectZ(ndcZ) == camera.positionZ - Depth(ndcZ)

\* _get3DSelectionBox(screenStart, screenEnd), lines 362-425: the box around the
\* eight unprojected corners as <<box>>, or << >> (the code's null) for an
\* unsupported camera.
Get3DSelectionBox(screenStart, screenEnd) ==
  IF ~camera.isOrthographicCamera /\ ~camera.isPerspectiveCamera
  THEN << >>
  ELSE LET xs == {UnprojectX(NdcX(x), z) : x \in {screenStart.x, screenEnd.x}, z \in {-1, 1}}
           ys == {UnprojectY(NdcY(y), z) : y \in {screenStart.y, screenEnd.y}, z \in {-1, 1}}
           zs == {UnprojectZ(-1), UnprojectZ(1)}
       IN <<[minX |-> Min(xs), maxX |-> Max(xs), minY |-> Min(ys), maxY |-> Max(ys),
             minZ |-> Min(zs), maxZ |-> Max(zs)]>>

\* console.warn of lines 407-409, made by every call of _get3DSelectionBox with
\* a perspective camera.
Warned ==
  IF ~camera.isOrthographicCamera /\ camera.isPerspectiveCamera
  THEN Min({consoleWarnings + 1, MaxWarnings})
  ELSE consoleWarnings

\* new THREE.Box3().setFromObject(mesh): the axis-aligned world bounds of the
\* unit plane after the mesh's scale, rotation about z and position.
MeshBox(mesh) ==
  LET extX == Abs(Cos(mesh.rotation)) * mesh.scale.x + Abs(Sin(mesh.rotation)) * mesh.scale.y
      extY == Abs(Sin(mesh.rotation)) * mesh.scale.x + Abs(Cos(mesh.rotation)) * mesh.scale.y
  IN [minX |-> 2 * mesh.position.x - extX, maxX |-> 2 * mesh.position.x + extX,
      minY |-> 2 * mesh.position.y - extY, maxY |-> 2 * mesh.position.y + extY,
      minZ |-> 10 * mesh.position.z, maxZ |-> 10 * mesh.position.z]

\* Box3.containsBox
ContainsBox(outer, inner) ==
  /\ outer.minX <= inner.minX /\ inner.maxX <= outer.maxX
  /\ outer.minY <= inner.minY /\ inner.maxY <= outer.maxY
  /\ outer.minZ <= inner.minZ /\ inner.maxZ <= outer.maxZ

\* Box3.intersectsBox (the alternative the source leaves commented out)
IntersectsBox(a, b) ==
  /\ a.minX <= b.maxX /\ b.minX <= a.maxX
  /\ a.minY <= b.maxY /\ b.minY <= a.maxY
  /\ a.minZ <= b.maxZ /\ b.minZ <= a.maxZ

\* this.materials?.default?.visible read on the controller, which has no
\* materials field: undefined, hence falsy.
ControllerDefaultMaterialVisible == FALSE

\* The candidate test of the loop at lines 220-234 for one mesh.
InBox(mesh, selectionBox3D) ==
  /\ ~(~mesh.visible /\ ~ControllerDefaultMaterialVisible)
  /\ ContainsBox(selectionBox3D, MeshBox(mesh))
  /\ Truthy(mesh.entityUUID)

\* entitiesInBox, lines 219-234
EntitiesInBox(meshes, selectionBox3D) ==
  {meshes[i].entityUUID : i \in {j \in DOMAIN meshes : InBox(meshes[j], selectionBox3D)}}

\* _performBoxSelection(screenStart, screenEnd, isMultiSelect), lines 215-244
PerformBoxSelection(st, screenStart, screenEnd, isMultiSelect) ==
  LET selectionBox3D == Get3DSelectionBox(screenStart, screenEnd)
  IN IF selectionBox3D = << >>
     THEN st
     ELSE LET entitiesInBox == EntitiesInBox(st.meshes, selectionBox3D[1])
          IN IF ~isMultiSelect
             THEN SelectEach(DeselectAll(st), entitiesInBox)
             ELSE SelectEach(st, entitiesInBox)

\* ------------------------------------------------------------ hit-tests
\* The raycaster's answer when nothing is under the pointer.
NoHit == "none"

\* What the raycaster can answer: no object, or a mesh of the list it targets.
RaycastResults == {NoHit} \cup ListedUUIDs

\* A hit-test in flight: who awaits it, and the isMultiSelect the click handler
\* captured before the await.  The raycaster's answer is drawn when it returns.
HitTest(kind, isMultiSelect) == [kind |-> kind, isMultiSelect |-> isMultiSelect]

Issue(bag, request) == bag (+) SetToBag({request})
Settle(bag, request) == bag (-) SetToBag({request})

\* _getIntersectedObject after the await, lines 346-353, then
\* intersectedMesh?.userData?.entityUUID at the caller.
IntersectedUUID(raw) == IF raw # NoHit /\ HasMesh(raw) THEN raw ELSE Undefined

\* Variant: the hover styles are applied whether or not the entity is selected.
UpdateHover_IgnoresSelection(hovered, st, hoveredUUID) ==
  IF hovered = hoveredUUID
  THEN [hovered |-> hovered, meshes |-> st.meshes]
  ELSE LET cleared == IF Truthy(hovered)
                      THEN SetVisualState(st.meshes, hovered, FALSE, FALSE)
                      ELSE st.meshes
       IN [hovered |-> hoveredUUID,
           meshes |-> IF Truthy(hoveredUUID)
                      THEN SetVisualState(cleared, hoveredUUID, FALSE, TRUE)
                      ELSE cleared]

\* Variant: the mesh hovered before is left as it is.
UpdateHover_KeepsPrevious(hovered, st, hoveredUUID) ==
  IF hovered = hoveredUUID
  THEN [hovered |-> hovered, meshes |-> st.meshes]
  ELSE [hovered |-> hoveredUUID,
        meshes |-> IF Truthy(hoveredUUID) /\ hoveredUUID \notin st.sel
                   THEN SetVisualState(st.meshes, hoveredUUID, FALSE, TRUE)
                   ELSE st.meshes]

\* The part of _updateHover after its await, lines 305-322.
UpdateHover(hovered, st, hoveredUUID) ==
  IF hovered = hoveredUUID
  THEN [hovered |-> hovered, meshes |-> st.meshes]
  ELSE LET cleared == IF Truthy(hovered) /\ hovered \notin st.sel
                      THEN SetVisualState(st.meshes, hovered, FALSE, FALSE)
                      ELSE st.meshes
       IN [hovered |-> hoveredUUID,
           meshes |-> IF Truthy(hoveredUUID) /\ hoveredUUID \notin st.sel
                      THEN SetVisualState(cleared, hoveredUUID, FALSE, TRUE)
                      ELSE cleared]

\* Variant: a click on empty space clears the selection whatever the modifier
\* (the !isMultiSelect test of line 146 dropped).
ResolveClick_AlwaysClears(st, clickedUUID, isMultiSelect) ==
  IF Truthy(clickedUUID)
  THEN PerformSingleClickSelection(st, clickedUUID, isMultiSelect)
  ELSE DeselectAll(st)

\* The decision of _onPointerUp after its await, lines 142-150.
ResolveClick(st, clickedUUID, isMultiSelect) ==
  IF Truthy(clickedUUID)
  THEN PerformSingleClickSelection(st, clickedUUID, isMultiSelect)
  ELSE IF ~isMultiSelect THEN DeselectAll(st) ELSE st

\* The payloads _onKeyDown hands to trigger("select", ...), lines 165 and 169.
KeyPayload(key, sel) == IF key = "Escape" THEN {} ELSE sel

\* Variant: nothing is emitted when nothing is selected.
Trigger_SkipsEmpty(payload) == IF payload = {} THEN << >> ELSE <<payload>>

\* this.trigger("select", payload): the notifications one call emits.
Trigger(payload) == <<payload>>

\* Variant: the selection set itself is handed over, not a copy of it.
NewSet_SameObject(elems) == [live |-> TRUE, elems |-> elems]

\* new Set(this.selectedEntities), lines 156 and 169, and new Set(), line 165:
\* a fresh object holding elems.  An object that is the controller's own set
\* (live) has no elements of its own: its contents are selectedEntities.
NewSet(elems) == [live |-> FALSE, elems |-> elems]

\* What reading a payload object yields.
Contents(object) == IF object.live THEN selectedEntities ELSE object.elems

\* The listener keeps the object of the notification emitted last.
Deliver(emitted) ==
  IF emitted = << >> THEN delivered ELSE <<NewSet(emitted[Len(emitted)])>>

\* The scene's children when it holds exactly the meshes of a list.
SceneOf(meshes) == [i \in DOMAIN meshes |-> meshes[i].entityUUID]

\* scene.remove for every position in removed: the children that stay, in order.
RECURSIVE Remaining(_, _, _)
Remaining(children, removed, i) ==
  IF i > Len(children) THEN << >>
  ELSE (IF i \in removed THEN << >> ELSE <<children[i]>>) \o Remaining(children, removed, i + 1)

\* ----------------------------------------------------------- layer objects
\* The userData of the objects Batch.CreateObjects yields for an entity
\* (DxfViewer.js lines 1390-1403): the batch key's fields, and no entityUUID.
BaseUserData(uuid) ==
  [entityType |-> "INSERT", handle |-> uuid, layerName |-> EntityLayer[uuid]]

\* Variant: the objects carry the uuid their entity's volume is registered under.
LayerObjects_WithEntityUUID(name) ==
  {[userData |-> [entityUUID |-> uuid] @@ BaseUserData(uuid)] :
     uuid \in {u \in EntityUUIDs : EntityLayer[u] = name}}

\* layer.objects after Load: what _LoadBatch pushed, lines 664-674.
LayerObjects(name) ==
  {[userData |-> BaseUserData(uuid)] : uuid \in {u \in EntityUUIDs : EntityLayer[u] = name}}

\* obj.userData?.entityUUID
ObjectEntityUUID(obj) ==
  IF "entityUUID" \in DOMAIN obj.userData THEN obj.userData.entityUUID ELSE Undefined

\* this.selectedEntities?.has(uuid) and this.hoveredEntityUUID read on the
\* viewer, which has neither field: undefined both.
ViewerSelectedHas(uuid) == FALSE
ViewerHoveredEntityUUID == Undefined

\* The loop of ShowLayer, lines 324-334, on the registry's meshes.
ShowLayerMeshes(meshes, objects, show) ==
  [i \in DOMAIN meshes |->
     IF \E obj \in objects :
          /\ HasMesh(ObjectEntityUUID(obj))
          /\ meshMap[ObjectEntityUUID(obj)] = i
     THEN [meshes[i] EXCEPT !.visible =
             show /\ (\/ ViewerSelectedHas(meshes[i].entityUUID)
                      \/ ViewerHoveredEntityUUID = meshes[i].entityUUID)]
     ELSE meshes[i]]

\* ------------------------------------------------------------------ viewer
\* A DxfViewer with its renderer, before any Load.  selector and
\* boundingBoxManager are 0 for null, else the index of the object they hold in
\* selectors (TRUE while its listeners are attached) and managers (TRUE once
\* disposed); loads holds each Load call in flight by what it awaits.
NewViewer ==
  [renderer |-> TRUE, worker |-> FALSE, selector |-> 0, boundingBoxManager |-> 0,
   selectors |-> << >>, managers |-> << >>, loads |-> EmptyBag, started |-> 0]

\* A viewer after one Load has run to its end.
LoadedViewer ==
  [NewViewer EXCEPT !.selector = 1, !.boundingBoxManager = 1,
                    !.selectors = <<TRUE>>, !.managers = <<FALSE>>, !.started = 1]

\* DxfViewer.Clear, lines 350-394, on the fields above: the worker is destroyed,
\* the selector and the manager the viewer holds are disposed and forgotten.
Clear(v) ==
  [v EXCEPT !.worker = FALSE,
            !.selectors = IF v.selector # 0 THEN [@ EXCEPT ![v.selector] = FALSE] ELSE @,
            !.selector = 0,
            !.managers = IF v.boundingBoxManager # 0
                         THEN [@ EXCEPT ![v.boundingBoxManager] = TRUE] ELSE @,
            !.boundingBoxManager = 0]

\* ---------------------------------------------------------------- actions
\* The document DxfViewer.Load registers, in order, before it constructs Select.
Document == <<"A", "B", "C">>

ControllerWith(cam) ==
  /\ camera = cam
  /\ consoleWarnings = 0
  /\ selectedEntities = {}
  /\ hoveredEntityUUID = Null
  /\ isMouseDown = FALSE
  /\ isDragging = FALSE
  /\ startPoint = [x |-> 0, y |-> 0]
  /\ selectionBoxElement = FALSE
  /\ pending = EmptyBag
  /\ listening = TRUE
  /\ movedSincePress = FALSE
  /\ delivered = << >>
  /\ last = [op |-> "new", uuid |-> Null, isMultiSelect |-> FALSE, before |-> {},
             point |-> NoPoint, emitted |-> <<>>]

\* The controller DxfViewer.Load constructs, with the viewer's camera.
Controller == ControllerWith(Camera)

\* A viewer after Load: every entity of the document registered, Select constructed.
Init ==
  /\ boundingBoxMeshList =
       [i \in DOMAIN Document |-> CreateMesh(Entities[Document[i]], BoundingBoxDefs[Document[i]])]
  /\ meshMap = [u \in EntityUUIDs |->
                  IF \E i \in DOMAIN Document : Document[i] = u
                  THEN Max({i \in DOMAIN Document : Document[i] = u}) ELSE 0]
  /\ scene = SceneOf(boundingBoxMeshList)
  /\ layerObjectsVisible = [name \in LayerNames |-> TRUE]
  /\ viewer = LoadedViewer
  /\ Controller

\* A registry and a controller over it before anything is registered.
InitRegistry ==
  /\ boundingBoxMeshList = <<>>
  /\ meshMap = [u \in EntityUUIDs |-> 0]
  /\ scene = SceneOf(boundingBoxMeshList)
  /\ layerObjectsVisible = [name \in LayerNames |-> TRUE]
  /\ viewer = LoadedViewer
  /\ Controller

Here == Sel(selectedEntities, boundingBoxMeshList)

\* The entity arguments of createBoundingBox, named by what their uuid is: the
\* uuid of a document entity, the empty string, Undefined for an entity without
\* a uuid, Null for no entity at all.
EntityArgs == EntityUUIDs \cup {"", Undefined, Null}

\* What createBoundingBox returns, kept with the step: a mesh or null.
Returned(step, handle) == [returned |-> handle] @@ step

\* Variant: the uuid of the entity is not tested; an entity without one is
\* registered with the transform of A.
CreateBoundingBox_NoUUIDCheck(uuid, withDef) ==
  IF ~withDef \/ uuid = Null
  THEN /\ last' = Returned(Step("createBoundingBox", uuid, FALSE, NoPoint, <<>>), Null)
       /\ UNCHANGED <<registry, listening, camera, viewer, layerObjectsVisible, consoleWarnings, movedSincePress, selectedEntities, hoveredEntityUUID, pointerState, pending,
                      delivered>>
  ELSE /\ Len(boundingBoxMeshList) < MaxMeshes
       /\ Len(scene) < MaxMeshes
       /\ LET known == IF uuid \in EntityUUIDs THEN uuid ELSE "A"
          IN boundingBoxMeshList' =
               Append(boundingBoxMeshList,
                      [CreateMesh(Entities[known], BoundingBoxDefs[known])
                         EXCEPT !.entityUUID = uuid])
       /\ meshMap' = IF uuid \in EntityUUIDs
                     THEN [meshMap EXCEPT ![uuid] = Len(boundingBoxMeshList) + 1]
                     ELSE meshMap
       /\ scene' = Append(scene, uuid)
       /\ last' = Returned(Step("createBoundingBox", uuid, FALSE, NoPoint, <<>>), "mesh")
       /\ UNCHANGED <<selectedEntities, hoveredEntityUUID, pointerState, pending, listening, camera, viewer, layerObjectsVisible, consoleWarnings,
                      movedSincePress, delivered>>

\* BoundingBoxManager.createBoundingBox(entity, boundingBoxDef), lines 73-126.
\* withDef is whether a bounding definition is passed, and not null.
CreateBoundingBox(uuid, withDef) ==
  IF ~withDef \/ uuid = Null \/ ~Truthy(uuid)
  THEN /\ last' = Returned(Step("createBoundingBox", uuid, FALSE, NoPoint, <<>>), Null)
       /\ UNCHANGED <<registry, listening, camera, viewer, layerObjectsVisible, consoleWarnings, movedSincePress, selectedEntities, hoveredEntityUUID, pointerState, pending,
                      delivered>>
  ELSE /\ Len(boundingBoxMeshList) < MaxMeshes
       /\ Len(scene) < MaxMeshes
       /\ boundingBoxMeshList' =
            Append(boundingBoxMeshList, CreateMesh(Entities[uuid], BoundingBoxDefs[uuid]))
       /\ meshMap' = [meshMap EXCEPT ![uuid] = Len(boundingBoxMeshList) + 1]
       /\ scene' = Append(scene, uuid)
       /\ last' = Returned(Step("createBoundingBox", uuid, FALSE, NoPoint, <<>>), "mesh")
       /\ UNCHANGED <<selectedEntities, hoveredEntityUUID, pointerState, pending, listening, camera, viewer, layerObjectsVisible, consoleWarnings,
                      movedSincePress, delivered>>

\* BoundingBoxManager.dispose(), lines 165-184: the meshes the map holds leave
\* the scene, the map is cleared and the list replaced by an empty one.  The
\* list's meshes are the scene's last Len(boundingBoxMeshList) children.
RegistryDispose ==
  /\ LET offset == Len(scene) - Len(boundingBoxMeshList)
         removed == {offset + meshMap[u] : u \in {v \in EntityUUIDs : meshMap[v] # 0}}
     IN scene' = Remaining(scene, removed, 1)
  /\ meshMap' = [u \in EntityUUIDs |-> 0]
  /\ boundingBoxMeshList' = << >>
  /\ last' = Step("registryDispose", Null, FALSE, NoPoint, <<>>)
  /\ UNCHANGED <<selectedEntities, hoveredEntityUUID, pointerState, pending, listening, camera, viewer, layerObjectsVisible, consoleWarnings,
                      movedSincePress, delivered>>

\* What a pointer event carried, kept with the step: its button and whether its
\* target is the container.
Event(step, button, onContainer) == [button |-> button, onContainer |-> onContainer] @@ step

\* The buttons of a pointer event: primary, auxiliary, secondary.
Buttons == {0, 1, 2}

\* Variant: a press on the container is taken whatever its button.
OnPointerDownIgnored_AnyButton(point, button, onContainer) ==
  /\ listening
  /\ button # 0 \/ ~onContainer
  /\ IF onContainer
     THEN /\ isMouseDown' = TRUE
          /\ isDragging' = FALSE
          /\ startPoint' = point
          /\ movedSincePress' = FALSE
     ELSE UNCHANGED <<isMouseDown, isDragging, startPoint, movedSincePress>>
  /\ last' = Event(Step("pointerdown ignored", Null, FALSE, NoPoint, <<>>), button, onContainer)
  /\ UNCHANGED <<registry, listening, camera, viewer, layerObjectsVisible, consoleWarnings, selectedEntities, hoveredEntityUUID, selectionBoxElement,
                 pending, delivered>>

\* Select._onPointerDown returning at line 83: another button than the primary
\* one, or a target that is not the container.
OnPointerDownIgnored(point, button, onContainer) ==
  /\ listening
  /\ button # 0 \/ ~onContainer
  /\ last' = Event(Step("pointerdown ignored", Null, FALSE, NoPoint, <<>>), button, onContainer)
  /\ UNCHANGED <<registry, listening, camera, viewer, layerObjectsVisible, consoleWarnings, movedSincePress, selectedEntities, hoveredEntityUUID,
                 pointerState, pending, delivered>>

\* Variant: the drag flag is not reset by a press.
OnPointerDown_KeepsDragging(point) ==
  /\ listening
  /\ isMouseDown' = TRUE
  /\ startPoint' = point
  /\ movedSincePress' = FALSE
  /\ last' = Step("pointerdown", Null, FALSE, NoPoint, <<>>)
  /\ UNCHANGED <<registry, listening, camera, viewer, layerObjectsVisible, consoleWarnings, selectedEntities, hoveredEntityUUID, isDragging,
                 selectionBoxElement, pending, delivered>>

\* Select._onPointerDown with the primary button on the container, lines 81-92
OnPointerDown(point) ==
  /\ listening
  /\ isMouseDown' = TRUE
  /\ isDragging' = FALSE
  /\ startPoint' = point
  /\ movedSincePress' = FALSE
  /\ last' = Step("pointerdown", Null, FALSE, NoPoint, <<>>)
  /\ UNCHANGED <<registry, listening, camera, viewer, layerObjectsVisible, consoleWarnings, selectedEntities, hoveredEntityUUID, selectionBoxElement,
                 pending, delivered>>

\* Select._onPointerMove, lines 97-115: a hover hit-test when the button is up,
\* the drag flag and the overlay when it is down.  The overlay's rectangle is
\* not kept, so the event's position is not an input here.
OnPointerMove ==
  /\ listening
  /\ IF ~isMouseDown
     THEN /\ BagCardinality(pending) < MaxPending
          /\ pending' = Issue(pending, HitTest("hover", FALSE))
          /\ UNCHANGED <<isDragging, selectionBoxElement, movedSincePress>>
     ELSE /\ isDragging' = TRUE
          /\ selectionBoxElement' = TRUE
          /\ movedSincePress' = TRUE
          /\ UNCHANGED pending
  /\ last' = Step("pointermove", Null, FALSE, NoPoint, <<>>)
  /\ UNCHANGED <<registry, listening, camera, viewer, layerObjectsVisible, consoleWarnings, selectedEntities, hoveredEntityUUID, isMouseDown,
                 startPoint, delivered>>

\* Select._onPointerUp returning at line 121: no press is outstanding, or the
\* button released is not the primary one.
OnPointerUpIgnored(button) ==
  /\ listening
  /\ ~isMouseDown \/ button # 0
  /\ last' = Event(Step("pointerup ignored", Null, FALSE, NoPoint, <<>>), button, TRUE)
  /\ UNCHANGED <<registry, listening, camera, viewer, layerObjectsVisible, consoleWarnings, movedSincePress, selectedEntities, hoveredEntityUUID,
                 pointerState, pending, delivered>>

\* Variant: the overlay is removed only where a drag is finalised.
OnPointerUp_OverlayRemovedOnDrag(point, isMultiSelect) ==
  /\ listening
  /\ isMouseDown
  /\ BagCardinality(pending) < MaxPending
  /\ isMouseDown' = FALSE
  /\ isDragging' = FALSE
  /\ selectionBoxElement' = IF isDragging THEN FALSE ELSE selectionBoxElement
  /\ movedSincePress' = FALSE
  /\ IF isDragging
     THEN LET after == PerformBoxSelection(Here, startPoint, point, isMultiSelect)
          IN /\ selectedEntities' = after.sel
             /\ boundingBoxMeshList' = after.meshes
             /\ pending' = Issue(pending, HitTest("hover", FALSE))
             /\ last' = Step("boxSelection", Null, isMultiSelect, point, Trigger(after.sel))
             /\ delivered' = Deliver(Trigger(after.sel))
     ELSE /\ pending' = Issue(pending, HitTest("click", isMultiSelect))
          /\ last' = Step("pointerup", Null, isMultiSelect, NoPoint, <<>>)
          /\ UNCHANGED <<selectedEntities, boundingBoxMeshList, delivered>>
  /\ consoleWarnings' = IF isDragging THEN Warned ELSE consoleWarnings
  /\ UNCHANGED <<meshMap, scene, listening, camera, viewer, layerObjectsVisible, hoveredEntityUUID, startPoint>>

\* Select._onPointerUp up to its first await, lines 120-141 (a click), or to its
\* end, lines 120-138 and 152-156 (a drag): the release of the primary button.
OnPointerUp(point, isMultiSelect) ==
  /\ listening
  /\ isMouseDown
  /\ BagCardinality(pending) < MaxPending
  /\ isMouseDown' = FALSE
  /\ isDragging' = FALSE
  /\ selectionBoxElement' = FALSE
  /\ movedSincePress' = FALSE
  /\ IF isDragging
     THEN LET after == PerformBoxSelection(Here, startPoint, point, isMultiSelect)
          IN /\ selectedEntities' = after.sel
             /\ boundingBoxMeshList' = after.meshes
             /\ pending' = Issue(pending, HitTest("hover", FALSE))
             /\ last' = Step("boxSelection", Null, isMultiSelect, point, Trigger(after.sel))
             /\ delivered' = Deliver(Trigger(after.sel))
     ELSE /\ pending' = Issue(pending, HitTest("click", isMultiSelect))
          /\ last' = Step("pointerup", Null, isMultiSelect, NoPoint, <<>>)
          /\ UNCHANGED <<selectedEntities, boundingBoxMeshList, delivered>>
  /\ consoleWarnings' = IF isDragging THEN Warned ELSE consoleWarnings
  /\ UNCHANGED <<meshMap, scene, listening, camera, viewer, layerObjectsVisible, hoveredEntityUUID, startPoint>>

\* Variant: a click that changed nothing (empty space, modifier held) returns
\* without a notification.
ClickResolved_SilentMiss(request, raw) ==
  /\ BagIn(request, pending)
  /\ request.kind = "click"
  /\ LET clickedUUID == IntersectedUUID(raw)
         after == ResolveClick(Here, clickedUUID, request.isMultiSelect)
     IN /\ selectedEntities' = after.sel
        /\ boundingBoxMeshList' = after.meshes
        /\ last' = Step("click", clickedUUID, request.isMultiSelect, NoPoint,
                        IF after.sel = selectedEntities THEN << >> ELSE Trigger(after.sel))
        /\ delivered' = Deliver(IF after.sel = selectedEntities
                                THEN << >> ELSE Trigger(after.sel))
  /\ pending' = Issue(Settle(pending, request), HitTest("hover", FALSE))
  /\ UNCHANGED <<meshMap, scene, listening, camera, viewer, layerObjectsVisible, consoleWarnings, movedSincePress, hoveredEntityUUID, pointerState>>

\* Select._onPointerUp after its await, lines 142-156: the click is resolved,
\* a hover hit-test is issued for the same event and the notification emitted.
ClickResolved(request, raw) ==
  /\ BagIn(request, pending)
  /\ request.kind = "click"
  /\ LET clickedUUID == IntersectedUUID(raw)
         after == ResolveClick(Here, clickedUUID, request.isMultiSelect)
     IN /\ selectedEntities' = after.sel
        /\ boundingBoxMeshList' = after.meshes
        /\ last' = Step("click", clickedUUID, request.isMultiSelect, NoPoint, Trigger(after.sel))
        /\ delivered' = Deliver(Trigger(after.sel))
  /\ pending' = Issue(Settle(pending, request), HitTest("hover", FALSE))
  /\ UNCHANGED <<meshMap, scene, listening, camera, viewer, layerObjectsVisible, consoleWarnings, movedSincePress, hoveredEntityUUID, pointerState>>

\* Variant: a hover change is announced like a selection change.
HoverResolved_Notifies(request, raw) ==
  /\ BagIn(request, pending)
  /\ request.kind = "hover"
  /\ LET after == UpdateHover(hoveredEntityUUID, Here, IntersectedUUID(raw))
     IN /\ hoveredEntityUUID' = after.hovered
        /\ boundingBoxMeshList' = after.meshes
        /\ last' = Step("hover", IntersectedUUID(raw), FALSE, NoPoint,
                        IF after.hovered # hoveredEntityUUID
                        THEN Trigger(selectedEntities) ELSE << >>)
        /\ delivered' = Deliver(IF after.hovered # hoveredEntityUUID
                                THEN Trigger(selectedEntities) ELSE << >>)
  /\ pending' = Settle(pending, request)
  /\ UNCHANGED <<meshMap, scene, listening, camera, viewer, layerObjectsVisible, consoleWarnings, movedSincePress, selectedEntities, pointerState>>

\* Select._updateHover after its await, lines 305-322
HoverResolved(request, raw) ==
  /\ BagIn(request, pending)
  /\ request.kind = "hover"
  /\ LET after == UpdateHover(hoveredEntityUUID, Here, IntersectedUUID(raw))
     IN /\ hoveredEntityUUID' = after.hovered
        /\ boundingBoxMeshList' = after.meshes
  /\ pending' = Settle(pending, request)
  /\ last' = Step("hover", IntersectedUUID(raw), FALSE, NoPoint, <<>>)
  /\ UNCHANGED <<meshMap, scene, listening, camera, viewer, layerObjectsVisible, consoleWarnings, movedSincePress, selectedEntities, pointerState, delivered>>

\* Variant: a key press is not handled while a click awaits its hit-test.
OnKeyDown_WaitsForClick(key, ctrlOrMeta) ==
  /\ listening
  /\ ~BagIn(HitTest("click", TRUE), pending)
  /\ ~BagIn(HitTest("click", FALSE), pending)
  /\ key = "Escape" \/ (key = "a" /\ ctrlOrMeta)
  /\ LET after == IF key = "Escape" THEN DeselectAll(Here) ELSE SelectAll(Here)
     IN /\ selectedEntities' = after.sel
        /\ boundingBoxMeshList' = after.meshes
        /\ last' = Step(key, Null, ctrlOrMeta, NoPoint, Trigger(KeyPayload(key, after.sel)))
        /\ delivered' = Deliver(Trigger(KeyPayload(key, after.sel)))
  /\ UNCHANGED <<meshMap, scene, listening, camera, viewer, layerObjectsVisible, consoleWarnings, movedSincePress, hoveredEntityUUID, pointerState,
                 pending>>

\* Select._onKeyDown, lines 162-171: Escape, or "a" with Ctrl or Cmd held
OnKeyDown(key, ctrlOrMeta) ==
  /\ listening
  /\ key = "Escape" \/ (key = "a" /\ ctrlOrMeta)
  /\ LET after == IF key = "Escape" THEN DeselectAll(Here) ELSE SelectAll(Here)
     IN /\ selectedEntities' = after.sel
        /\ boundingBoxMeshList' = after.meshes
        /\ last' = Step(key, Null, ctrlOrMeta, NoPoint, Trigger(KeyPayload(key, after.sel)))
        /\ delivered' = Deliver(Trigger(KeyPayload(key, after.sel)))
  /\ UNCHANGED <<meshMap, scene, listening, camera, viewer, layerObjectsVisible, consoleWarnings, movedSincePress, hoveredEntityUUID, pointerState, pending>>

\* Select.dispose(), lines 473-480: the listeners are removed, the overlay is
\* removed, the selection set cleared and the hovered uuid reset.  Awaits in
\* flight are not cancelled and no mesh is restyled.
SelectDispose ==
  /\ listening' = FALSE
  /\ selectionBoxElement' = FALSE
  /\ selectedEntities' = {}
  /\ hoveredEntityUUID' = Null
  /\ last' = Step("dispose", Null, FALSE, NoPoint, <<>>)
  /\ UNCHANGED <<registry, isMouseDown, isDragging, startPoint, pending, movedSincePress,
                 camera, viewer, layerObjectsVisible, consoleWarnings, delivered>>

\* DxfViewer.ShowLayer(name, show), lines 317-337
ShowLayer(name, show) ==
  /\ IF name \in LayerNames
     THEN /\ layerObjectsVisible' = [layerObjectsVisible EXCEPT ![name] = show]
          /\ boundingBoxMeshList' = ShowLayerMeshes(boundingBoxMeshList, LayerObjects(name), show)
     ELSE UNCHANGED <<layerObjectsVisible, boundingBoxMeshList>>
  /\ last' = [name |-> name, show |-> show] @@ Step("showLayer", Null, FALSE, NoPoint, <<>>)
  /\ UNCHANGED <<meshMap, scene, listening, camera, viewer, consoleWarnings, selectedEntities,
                 hoveredEntityUUID, pointerState, pending, movedSincePress, delivered>>

\* What the viewer's own operations leave alone: the state of the controller
\* and the registry modelled in detail.
interaction ==
  <<registry, selectedEntities, hoveredEntityUUID, pointerState, pending, movedSincePress,
    camera, consoleWarnings, layerObjectsVisible, listening, delivered>>

\* DxfViewer.Load up to its first await, lines 428-438: Clear, then the worker is
\* started.
ViewerLoad ==
  /\ viewer.renderer
  /\ viewer.started < MaxLoads
  /\ viewer' = [Clear(viewer) EXCEPT !.worker = TRUE, !.started = @ + 1,
                                     !.loads = Issue(@, "worker")]
  /\ last' = Step("Load", Null, FALSE, NoPoint, <<>>)
  /\ UNCHANGED interaction

\* The worker of a Load answers, lines 439-453: with a result, and the call goes
\* on to the await in finally; or with an error, and the call goes through the
\* awaits of catch and finally to its return.
WorkerReturns(ok) ==
  /\ BagIn("worker", viewer.loads)
  /\ viewer' = [viewer EXCEPT !.loads = Issue(Settle(@, "worker"),
                                              IF ok THEN "finally" ELSE "failed")]
  /\ last' = Step("worker", Null, FALSE, NoPoint, <<>>)
  /\ UNCHANGED interaction

\* A failed Load returns, lines 445-452.
LoadFails ==
  /\ BagIn("failed", viewer.loads)
  /\ viewer' = [viewer EXCEPT !.loads = Settle(@, "failed"), !.worker = FALSE]
  /\ last' = Step("Load failed", Null, FALSE, NoPoint, <<>>)
  /\ UNCHANGED interaction

\* A Load with a result runs from the end of finally to its end, lines 451-538:
\* a new BoundingBoxManager and, if the renderer is there, a new Select are
\* assigned to the viewer's fields, whatever these held.
LoadFinishes ==
  /\ BagIn("finally", viewer.loads)
  /\ viewer' =
       [viewer EXCEPT
          !.loads = Settle(@, "finally"),
          !.worker = FALSE,
          !.managers = Append(@, FALSE),
          !.boundingBoxManager = Len(viewer.managers) + 1,
          !.selectors = IF viewer.renderer THEN Append(@, TRUE) ELSE @,
          !.selector = IF viewer.renderer THEN Len(viewer.selectors) + 1 ELSE @]
  /\ last' = Step("Load finished", Null, FALSE, NoPoint, <<>>)
  /\ UNCHANGED interaction

\* DxfViewer.Clear called by the host, lines 350-394
ViewerClear ==
  /\ viewer.renderer
  /\ viewer' = Clear(viewer)
  /\ last' = Step("Clear", Null, FALSE, NoPoint, <<>>)
  /\ UNCHANGED interaction

\* DxfViewer.Destroy, lines 396-424
ViewerDestroy ==
  /\ viewer.renderer
  /\ viewer' = [Clear(viewer) EXCEPT !.renderer = FALSE]
  /\ last' = Step("Destroy", Null, FALSE, NoPoint, <<>>)
  /\ UNCHANGED interaction

\* The host calling the controller's public selection operations.
CallSelect(uuid) ==
  /\ LET after == Select(Here, uuid)
     IN /\ selectedEntities' = after.sel
        /\ boundingBoxMeshList' = after.meshes
  /\ last' = Step("select", uuid, FALSE, NoPoint, <<>>)
  /\ UNCHANGED <<meshMap, scene, listening, camera, viewer, layerObjectsVisible, consoleWarnings, movedSincePress, hoveredEntityUUID, pointerState, pending, delivered>>

CallDeselect(uuid) ==
  /\ LET after == Deselect(Here, uuid)
     IN /\ selectedEntities' = after.sel
        /\ boundingBoxMeshList' = after.meshes
  /\ last' = Step("deselect", uuid, FALSE, NoPoint, <<>>)
  /\ UNCHANGED <<meshMap, scene, listening, camera, viewer, layerObjectsVisible, consoleWarnings, movedSincePress, hoveredEntityUUID, pointerState, pending, delivered>>

CallDeselectAll ==
  /\ LET after == DeselectAll(Here)
     IN /\ selectedEntities' = after.sel
        /\ boundingBoxMeshList' = after.meshes
  /\ last' = Step("deselectAll", Null, FALSE, NoPoint, <<>>)
  /\ UNCHANGED <<meshMap, scene, listening, camera, viewer, layerObjectsVisible, consoleWarnings, movedSincePress, hoveredEntityUUID, pointerState, pending, delivered>>

CallSelectAll ==
  /\ LET after == SelectAll(Here)
     IN /\ selectedEntities' = after.sel
        /\ boundingBoxMeshList' = after.meshes
  /\ last' = Step("selectAll", Null, FALSE, NoPoint, <<>>)
  /\ UNCHANGED <<meshMap, scene, listening, camera, viewer, layerObjectsVisible, consoleWarnings, movedSincePress, hoveredEntityUUID, pointerState, pending, delivered>>

\* The host calling select(uuid) and then deselect(uuid).
CallSelectThenDeselect(uuid) ==
  /\ LET after == Deselect(Select(Here, uuid), uuid)
     IN /\ selectedEntities' = after.sel
        /\ boundingBoxMeshList' = after.meshes
  /\ last' = Step("select,deselect", uuid, FALSE, NoPoint, <<>>)
  /\ UNCHANGED <<meshMap, scene, listening, camera, viewer, layerObjectsVisible, consoleWarnings, movedSincePress, hoveredEntityUUID, pointerState, pending, delivered>>

\* The host calling BoundingBoxManager.setVisualState(uuid, {selected, hovered}),
\* lines 133-151; an absent flag is a false one.
CallSetVisualState(uuid, selected, hovered) ==
  /\ boundingBoxMeshList' = SetVisualState(boundingBoxMeshList, uuid, selected, hovered)
  /\ last' = [state |-> [selected |-> selected, hovered |-> hovered]]
               @@ Step("setVisualState", uuid, FALSE, NoPoint, <<>>)
  /\ UNCHANGED <<meshMap, scene, listening, camera, viewer, layerObjectsVisible, consoleWarnings, movedSincePress, selectedEntities, hoveredEntityUUID, pointerState, pending, delivered>>

\* The listener of "select" mutating the payload object it was handed: Set.add
\* or Set.delete of one uuid.  On the controller's own set that is a change of
\* selectedEntities; on a copy it is not.
ListenerMutates(uuid, add) ==
  /\ delivered # << >>
  /\ LET object == delivered[1]
         elems == IF add THEN object.elems \cup {uuid} ELSE object.elems \ {uuid}
     IN /\ delivered' = <<[object EXCEPT !.elems = elems]>>
        /\ selectedEntities' =
             IF object.live
             THEN (IF add THEN selectedEntities \cup {uuid} ELSE selectedEntities \ {uuid})
             ELSE selectedEntities
  /\ last' = Step("listener", uuid, FALSE, NoPoint, <<>>)
  /\ UNCHANGED <<registry, listening, camera, viewer, layerObjectsVisible, consoleWarnings, movedSincePress, hoveredEntityUUID, pointerState, pending>>

\* The controller of a loaded viewer under pointer and keyboard input.
Next ==
  \/ \E point \in Points : OnPointerDown(point)
  \/ OnPointerMove
  \/ \E point \in Points, isMultiSelect \in BOOLEAN : OnPointerUp(point, isMultiSelect)
  \/ \E request \in BagToSet(pending), raw \in RaycastResults : ClickResolved(request, raw)
  \/ \E request \in BagToSet(pending), raw \in RaycastResults : HoverResolved(request, raw)
  \/ \E key \in {"Escape", "a"}, ctrlOrMeta \in BOOLEAN : OnKeyDown(key, ctrlOrMeta)

Spec == Init /\ [][Next]_vars

\* Every issued hit-test eventually returns: the raycaster answers each request
\* in flight, whoever awaits it.
HitTestsReturn ==
  /\ \A isMultiSelect \in BOOLEAN :
       WF_vars(\E raw \in RaycastResults : ClickResolved(HitTest("click", isMultiSelect), raw))
  /\ WF_vars(\E raw \in RaycastResults : HoverResolved(HitTest("hover", FALSE), raw))

\* A viewer after Load of a document with the single entity B.
InitLive ==
  /\ boundingBoxMeshList = <<CreateMesh(Entities["B"], BoundingBoxDefs["B"])>>
  /\ meshMap = [u \in EntityUUIDs |-> IF u = "B" THEN 1 ELSE 0]
  /\ scene = SceneOf(boundingBoxMeshList)
  /\ layerObjectsVisible = [name \in LayerNames |-> TRUE]
  /\ viewer = LoadedViewer
  /\ Controller

SpecLive == InitLive /\ [][Next]_vars /\ HitTestsReturn

\* The controller of a viewer loaded with one entity, with hit-tests free to
\* stay unanswered for ever.
SpecHung == InitLive /\ [][Next]_vars

\* The controller of a loaded viewer until and after its disposal and that of
\* the registry, which the host may call in either order.
NextLifecycle ==
  \/ Next
  \/ SelectDispose
  \/ RegistryDispose

SpecLifecycle == InitLive /\ [][NextLifecycle]_vars

\* The pointer of a loaded viewer with every button and target.
NextPointer ==
  \/ \E point \in Points : OnPointerDown(point)
  \/ \E point \in Points, button \in Buttons, onContainer \in BOOLEAN :
       OnPointerDownIgnored(point, button, onContainer)
  \/ OnPointerMove
  \/ \E point \in Points, isMultiSelect \in BOOLEAN : OnPointerUp(point, isMultiSelect)
  \/ \E button \in Buttons : OnPointerUpIgnored(button)
  \/ \E request \in BagToSet(pending), raw \in RaycastResults : ClickResolved(request, raw)
  \/ \E request \in BagToSet(pending), raw \in RaycastResults : HoverResolved(request, raw)

SpecPointer == InitLive /\ [][NextPointer]_vars

\* A controller a host constructs over a registry holding B, with either kind
\* of camera.
InitPerspective ==
  /\ boundingBoxMeshList = <<CreateMesh(Entities["B"], BoundingBoxDefs["B"])>>
  /\ meshMap = [u \in EntityUUIDs |-> IF u = "B" THEN 1 ELSE 0]
  /\ scene = SceneOf(boundingBoxMeshList)
  /\ layerObjectsVisible = [name \in LayerNames |-> TRUE]
  /\ viewer = LoadedViewer
  /\ \E cam \in {Camera, PerspectiveCamera} : ControllerWith(cam)

SpecPerspective == InitPerspective /\ [][NextPointer]_vars

\* The registry being filled while the host and the keyboard drive the selection.
NextRegistry ==
  \/ \E uuid \in EntityUUIDs : CreateBoundingBox(uuid, TRUE)
  \/ \E key \in {"Escape", "a"}, ctrlOrMeta \in BOOLEAN : OnKeyDown(key, ctrlOrMeta)
  \/ \E uuid \in EntityUUIDs : CallSelect(uuid)
  \/ \E uuid \in EntityUUIDs : CallDeselect(uuid)
  \/ CallDeselectAll
  \/ CallSelectAll

SpecRegistry == InitRegistry /\ [][NextRegistry]_vars

\* The registry under createBoundingBox calls with any arguments, valid or not,
\* and restyling calls in between.
NextRegister ==
  \/ \E uuid \in EntityArgs, withDef \in BOOLEAN : CreateBoundingBox(uuid, withDef)
  \/ \E uuid \in EntityUUIDs, selected \in BOOLEAN, hovered \in BOOLEAN :
       CallSetVisualState(uuid, selected, hovered)
  \/ RegistryDispose

SpecRegister == InitRegistry /\ [][NextRegister]_vars

\* The uuids the host passes to the public operations: those of the entities
\* and the empty string.
HostUUIDs == EntityUUIDs \cup {""}

\* A viewer after Load of a document with the entities A and B; C has no mesh.
InitHost ==
  /\ boundingBoxMeshList =
       <<CreateMesh(Entities["A"], BoundingBoxDefs["A"]),
         CreateMesh(Entities["B"], BoundingBoxDefs["B"])>>
  /\ meshMap = [u \in EntityUUIDs |-> CASE u = "A" -> 1 [] u = "B" -> 2 [] OTHER -> 0]
  /\ scene = SceneOf(boundingBoxMeshList)
  /\ layerObjectsVisible = [name \in LayerNames |-> TRUE]
  /\ viewer = LoadedViewer
  /\ Controller

\* A viewer from its construction on: Load, Clear and Destroy called at any
\* time, workers answering at any time.
InitViewer ==
  /\ boundingBoxMeshList = <<>>
  /\ meshMap = [u \in EntityUUIDs |-> 0]
  /\ scene = << >>
  /\ layerObjectsVisible = [name \in LayerNames |-> TRUE]
  /\ viewer = NewViewer
  /\ Controller

NextViewer ==
  \/ ViewerLoad
  \/ \E ok \in BOOLEAN : WorkerReturns(ok)
  \/ LoadFails
  \/ LoadFinishes
  \/ ViewerClear
  \/ ViewerDestroy

SpecViewer == InitViewer /\ [][NextViewer]_vars

\* A loaded viewer whose host shows and hides layers.
NextLayers ==
  \/ Next
  \/ \E name \in ShowLayerNames, show \in BOOLEAN : ShowLayer(name, show)

SpecLayers == InitLive /\ [][NextLayers]_vars

\* Pointer and keyboard input alone on a viewer loaded with A and B; the
\* document's C has no volume.
SpecInput == InitHost /\ [][Next]_vars

\* The host driving the selection through the public operations while the
\* pointer hovers over the container.
NextHost ==
  \/ OnPointerMove
  \/ \E request \in BagToSet(pending), raw \in RaycastResults : HoverResolved(request, raw)
  \/ \E uuid \in HostUUIDs : CallSelect(uuid)
  \/ \E uuid \in HostUUIDs : CallDeselect(uuid)
  \/ \E uuid \in HostUUIDs : CallSelectThenDeselect(uuid)
  \/ \E uuid \in EntityUUIDs, selected \in BOOLEAN, hovered \in BOOLEAN :
       CallSetVisualState(uuid, selected, hovered)
  \/ CallDeselectAll
  \/ CallSelectAll

SpecHost == InitHost /\ [][NextHost]_vars

\* A listener of "select" that keeps and changes the payload it is handed, while
\* the keyboard and the host change the selection.
NextListener ==
  \/ \E key \in {"Escape", "a"}, ctrlOrMeta \in BOOLEAN : OnKeyDown(key, ctrlOrMeta)
  \/ \E uuid \in EntityUUIDs : CallSelect(uuid)
  \/ \E uuid \in EntityUUIDs : CallDeselect(uuid)
  \/ \E uuid \in EntityUUIDs, add \in BOOLEAN : ListenerMutates(uuid, add)

SpecListener == InitHost /\ [][NextListener]_vars

\* ================================================================ claims
\* The step taken last resolved a click: the hit-test has returned.
ClickStep == last.op = "click"
\* ... on an entity / on empty space.
ClickHit == ClickStep /\ Truthy(last.uuid)
ClickMiss == ClickStep /\ ~Truthy(last.uuid)

\* C1: a click whose hit-test returns E, released with neither Ctrl nor Cmd held,
\* leaves the selection empty if the selection it was resolved on was exactly
\* {E}, and exactly {E} in every other case.
C1_ClickHitNoModifier ==
  (ClickHit /\ ~last.isMultiSelect) =>
    selectedEntities = (IF last.before = {last.uuid} THEN {} ELSE {last.uuid})

\* C1 case: A was the only entity selected, a plain click on A emptied the selection.
C1_Witness ==
  /\ ClickHit /\ ~last.isMultiSelect
  /\ last.uuid = "A" /\ last.before = {"A"}
  /\ selectedEntities = {}

\* C2: a click whose hit-test returns E with Ctrl or Cmd held toggles E alone:
\* E is added if it was absent, removed if it was present, and every other id
\* keeps its membership.
C2_ClickHitModifierToggles ==
  (ClickHit /\ last.isMultiSelect) =>
    /\ (last.uuid \in selectedEntities) = (last.uuid \notin last.before)
    /\ selectedEntities \ {last.uuid} = last.before \ {last.uuid}

\* C2 case: with {A,B} selected, modifier-clicking A again left {B}.
C2_Witness ==
  /\ ClickHit /\ last.isMultiSelect
  /\ last.uuid = "A" /\ last.before = {"A", "B"}
  /\ selectedEntities = {"B"}

\* C3: a click whose hit-test returns no entity clears the whole selection when no
\* modifier is held and leaves the selection exactly as it was when one is.
C3_ClickMiss ==
  ClickMiss => selectedEntities = (IF last.isMultiSelect THEN last.before ELSE {})

\* C3 case: a modifier click on empty space kept a non-empty selection.
C3_Witness ==
  /\ ClickMiss /\ last.isMultiSelect
  /\ last.before = {"A", "C"}
  /\ selectedEntities = {"A", "C"}

\* C4: with A selected (as a click on A leaves it), a click without modifier on
\* another entity B leaves the selection exactly {B}: it never holds A and B
\* together once the click on B is resolved.
C4_ClickReplaces ==
  \A a, b \in EntityUUIDs :
    (ClickHit /\ ~last.isMultiSelect /\ last.uuid = b /\ a # b /\ a \in last.before) =>
      (selectedEntities = {b} /\ ~({a, b} \subseteq selectedEntities))

\* C4 case: {A} was selected and the plain click on B left {B}.
C4_Witness ==
  /\ ClickHit /\ ~last.isMultiSelect
  /\ last.uuid = "B" /\ last.before = {"A"}
  /\ selectedEntities = {"B"}

\* The step taken last was a release that ended a drag: a box selection.
BoxStep == last.op = "boxSelection"

\* The selection volume of that box: the press origin and the release point,
\* unprojected.
SelectionVolume == Get3DSelectionBox(startPoint, last.point)[1]

\* The ids of the registered volumes whose bounds lie fully inside the selection
\* volume, and of those whose bounds overlap it.
FullyInside ==
  {boundingBoxMeshList[i].entityUUID :
     i \in {j \in DOMAIN boundingBoxMeshList :
              ContainsBox(SelectionVolume, MeshBox(boundingBoxMeshList[j]))}}
Overlapping ==
  {boundingBoxMeshList[i].entityUUID :
     i \in {j \in DOMAIN boundingBoxMeshList :
              IntersectsBox(SelectionVolume, MeshBox(boundingBoxMeshList[j]))}}

\* C5: after a drag released with no modifier the selection is exactly the set of
\* ids whose volumes lie fully inside the selection volume (empty when there is
\* none), whatever was selected before.
C5_BoxReplaces ==
  (BoxStep /\ ~last.isMultiSelect) => selectedEntities = FullyInside

\* C6: after a drag released with a modifier held the selection is the previous
\* selection united with the ids whose volumes lie fully inside the selection
\* volume; nothing selected before is removed.
C6_BoxUnion ==
  (BoxStep /\ last.isMultiSelect) =>
    /\ selectedEntities = last.before \cup FullyInside
    /\ last.before \subseteq selectedEntities

\* C7: a box that fully contains A and C and only overlaps B selects, without
\* modifier, exactly {A,C}; and no box selection adds an entity whose bounds are
\* not fully inside the selection volume.
C7_BoxContainment ==
  /\ (BoxStep /\ ~last.isMultiSelect /\ FullyInside = {"A", "C"} /\ "B" \in Overlapping) =>
       selectedEntities = {"A", "C"}
  /\ BoxStep => (selectedEntities \ last.before) \subseteq FullyInside

\* C8: the Escape key always empties the selection and always emits exactly one
\* notification, whose payload is the empty set, also when the selection was
\* already empty.
C8_EscapeClearsAndNotifies ==
  last.op = "Escape" => (selectedEntities = {} /\ last.emitted = <<{}>>)

\* C8 case: Escape on an already empty selection, notified all the same.
C8_Witness ==
  /\ last.op = "Escape"
  /\ last.before = {}
  /\ selectedEntities = {}
  /\ last.emitted = <<{}>>

\* The step taken last was select-all: the key combination or the public call.
SelectAllStep == last.op \in {"a", "selectAll"}

\* The createBoundingBox calls so far carried pairwise distinct uuids.
DistinctRegistrations == Cardinality(ListedUUIDs) = Len(boundingBoxMeshList)

NotifyingStep == last.op \in {"boxSelection", "click", "Escape", "a"}

\* C10: every release that resolves a box selection, every click whose hit-test
\* has returned and every Escape or select-all key press emits exactly one
\* notification; a release that still awaits its hit-test holds exactly that
\* resolution pending; no other step emits any.
C10_OneNotificationPerResolution ==
  /\ Len(last.emitted) = (IF NotifyingStep THEN 1 ELSE 0)
  /\ last.op = "pointerup" => BagIn(HitTest("click", last.isMultiSelect), pending)

\* C10 case: a resolved click emitted a single notification, here with {B,C}.
C10_Witness ==
  /\ ClickStep
  /\ last.emitted = <<{"B", "C"}>>

\* C11: provided every issued hit-test returns, every release of the primary
\* button is followed by its notification: a release that ends a drag emits it
\* in the same step, and a release that ends a press, whose click awaits a
\* hit-test, is eventually followed by the resolution of that click with one
\* notification, whatever input is handled in between.
C11_ReleaseLeadsToNotification ==
  /\ [](BoxStep => Len(last.emitted) = 1)
  /\ \A isMultiSelect \in BOOLEAN :
       BagIn(HitTest("click", isMultiSelect), pending)
         ~> (ClickStep /\ last.isMultiSelect = isMultiSelect /\ Len(last.emitted) = 1)

\* C11 case: a click's notification arrives while the next press-and-drag is
\* already under way.
C11_Witness ==
  /\ ClickStep
  /\ Len(last.emitted) = 1
  /\ isMouseDown
  /\ isDragging

\* A step of hovering: a pointer move with the button up, or the resolution of
\* a hover hit-test.
HoverStepTaken ==
  \/ last'.op = "hover"
  \/ (last'.op = "pointermove" /\ ~isMouseDown)

\* C12: a pointer move with the primary button up, and the resolution of the
\* hover hit-test it issued, emit no notification and leave the selection set
\* unchanged; they change nothing but the hovered id, the meshes' styles and
\* the hit-tests in flight.
C12_HoverNeverNotifies ==
  [][HoverStepTaken =>
       /\ last'.emitted = << >>
       /\ selectedEntities' = selectedEntities
       /\ UNCHANGED <<meshMap, scene, listening, movedSincePress, pointerState>>]_vars

\* C12 case: the hover moved onto A while B is selected; nothing was emitted.
C12_Witness ==
  /\ last.op = "hover"
  /\ last.uuid = "A"
  /\ hoveredEntityUUID = "A"
  /\ selectedEntities = {"B"}
  /\ last.emitted = << >>

\* C13: every notification carries the selection set as it is when the
\* notification is emitted; the payload object the listener holds keeps the
\* contents it was delivered with, plus the listener's own changes, whatever
\* happens to the selection afterwards; and a change the listener makes to the
\* payload leaves the controller's selection as it was.
C13_PayloadIsSnapshot ==
  /\ \A i \in DOMAIN last.emitted : last.emitted[i] = selectedEntities
  /\ delivered # << >> => Contents(delivered[1]) = delivered[1].elems
  /\ last.op = "listener" => selectedEntities = last.before

\* C13 case: the listener was handed {A,B}, added C to it, and the selection
\* has since shrunk to {B}: payload and selection have gone separate ways.
C13_Witness ==
  /\ delivered # << >>
  /\ Contents(delivered[1]) = {"A", "B", "C"}
  /\ selectedEntities = {"B"}
  /\ last.op = "deselect"

\* The step taken last was a createBoundingBox call that returned a mesh.
RegisterStep == last.op = "createBoundingBox" /\ last.returned # Null

\* The mesh getMesh returns for the uuid of the step taken last.
LastMesh == boundingBoxMeshList[meshMap[last.uuid]]

\* C14: right after createBoundingBox returns a mesh for entity E, E is not
\* selected, the mesh has the default material and its visible flag is false.
C14_RegisteredHiddenUnselected ==
  RegisterStep =>
    /\ last.uuid \notin selectedEntities
    /\ LastMesh.material = "default"
    /\ LastMesh.visible = FALSE

\* The step taken last was select(uuid) followed by deselect(uuid).
RoundTripStep == last.op = "select,deselect"

\* C15 as stated: for every selection set S and every id, select(id) and then
\* deselect(id) returns the selection set to S.
C15_RoundTripAlways == RoundTripStep => selectedEntities = last.before

\* C15 amended: select(id) and then deselect(id) returns the selection set to S
\* for every id that is not in S; for an id in S it yields S without id.
C15_RoundTripUnselected ==
  RoundTripStep =>
    selectedEntities = (IF last.uuid \in last.before
                        THEN last.before \ {last.uuid} ELSE last.before)

\* C15 case: the round trip on the unselected id C, which has no mesh, from {A}.
C15_Witness ==
  /\ RoundTripStep
  /\ last.uuid = "C"
  /\ last.before = {"A"}
  /\ selectedEntities = {"A"}

\* C16: select(id) changes neither the selection set nor any mesh when id is
\* already selected, is empty or has no mesh in the registry; otherwise it adds
\* exactly id to the selection and gives its mesh the selected material.
C16_SelectNoOpOrAdds ==
  [][last'.op = "select" =>
       LET id == last'.uuid
       IN IF id \in selectedEntities \/ id = "" \/ ~HasMesh(id)
          THEN UNCHANGED <<selectedEntities, boundingBoxMeshList>>
          ELSE /\ selectedEntities' = selectedEntities \cup {id}
               /\ boundingBoxMeshList'[meshMap[id]].material = "selected"]_vars

\* C17: deselect(id) changes nothing when id is not selected; otherwise it
\* removes exactly id from the selection and gives the mesh of id the hover
\* material, visible, if id is the hovered uuid, and the default material,
\* hidden, if it is not; no other mesh changes.
C17_DeselectRemovesAndRestyles ==
  [][last'.op = "deselect" =>
       LET id == last'.uuid
       IN IF id \notin selectedEntities
          THEN UNCHANGED <<selectedEntities, boundingBoxMeshList>>
          ELSE /\ selectedEntities' = selectedEntities \ {id}
               /\ \A i \in DOMAIN boundingBoxMeshList :
                    IF i = meshMap[id]
                    THEN /\ boundingBoxMeshList'[i].material =
                              (IF hoveredEntityUUID = id THEN "hover" ELSE "default")
                         /\ boundingBoxMeshList'[i].visible = (hoveredEntityUUID = id)
                    ELSE boundingBoxMeshList'[i] = boundingBoxMeshList[i]]_vars

\* C17 case: A, selected and under the pointer, was deselected and now shows
\* the hover material.
C17_Witness ==
  /\ last.op = "deselect"
  /\ last.uuid = "A"
  /\ "A" \in last.before
  /\ hoveredEntityUUID = "A"
  /\ boundingBoxMeshList[meshMap["A"]].material = "hover"
  /\ boundingBoxMeshList[meshMap["A"]].visible

\* The positions of the list that hold a mesh of uuid.
Listed(uuid) == {i \in DOMAIN boundingBoxMeshList : boundingBoxMeshList[i].entityUUID = uuid}

\* C18: after any sequence of createBoundingBox calls, repeated uuids included,
\* the list holds exactly one mesh per registered uuid, at the position of the
\* uuid's first insertion, and the map gives for each registered uuid that mesh.
C18_OneMeshPerUUID ==
  \A uuid \in EntityUUIDs :
    /\ Cardinality(Listed(uuid)) <= 1
    /\ HasMesh(uuid) <=> Listed(uuid) # {}
    /\ HasMesh(uuid) => meshMap[uuid] = Min(Listed(uuid))

\* The material and visible flag setVisualState is to leave for the given flags.
Styled(mesh, selected, hovered) ==
  /\ mesh.material = (IF selected THEN "selected" ELSE IF hovered THEN "hover" ELSE "default")
  /\ mesh.visible = (selected \/ hovered)

\* C19: setVisualState(id, {selected, hovered}) on a registered id leaves its
\* mesh selected and visible whenever selected is true, whatever hovered is,
\* hover and visible when only hovered is true, default and hidden otherwise,
\* and no other mesh changed; the same call once more changes nothing; on an
\* unregistered id no mesh changes.
C19_SetVisualState ==
  [][last'.op = "setVisualState" =>
       LET id == last'.uuid
           selected == last'.state.selected
           hovered == last'.state.hovered
       IN /\ \A i \in DOMAIN boundingBoxMeshList :
               IF i = meshMap[id]
               THEN Styled(boundingBoxMeshList'[i], selected, hovered)
               ELSE boundingBoxMeshList'[i] = boundingBoxMeshList[i]
          /\ SetVisualState(boundingBoxMeshList', id, selected, hovered) = boundingBoxMeshList'
          /\ Len(boundingBoxMeshList') = Len(boundingBoxMeshList)]_vars

\* C19 case: both flags set on A: the selected material wins.
C19_Witness ==
  /\ last.op = "setVisualState"
  /\ last.uuid = "A"
  /\ last.state = [selected |-> TRUE, hovered |-> TRUE]
  /\ boundingBoxMeshList[meshMap["A"]].material = "selected"
  /\ boundingBoxMeshList[meshMap["A"]].visible

\* The step taken last was a createBoundingBox call without an entity, without
\* a uuid or without a bounding definition.
InvalidRegisterStep ==
  /\ last.op = "createBoundingBox"
  /\ last.returned = Null

\* C20: createBoundingBox called with no entity, with an entity whose uuid is
\* missing or empty, or with a null bounding definition returns null and leaves
\* the map and the list as they were.
C20_InvalidRegistrationRejected ==
  [][\A uuid \in EntityArgs, withDef \in BOOLEAN :
       (CreateBoundingBox(uuid, withDef) /\ (~withDef \/ uuid \in {"", Undefined, Null})) =>
         (last'.returned = Null /\ UNCHANGED registry)]_vars

\* C20 case: an entity with an empty uuid was turned down by a registry that
\* already holds A and B.
C20_Witness ==
  /\ InvalidRegisterStep
  /\ last.uuid = ""
  /\ Len(boundingBoxMeshList) = 2
  /\ ListedUUIDs = {"A", "B"}

\* The step taken last was BoundingBoxManager.dispose().
RegistryDisposeStep == last.op = "registryDispose"

\* C21: after BoundingBoxManager.dispose() no mesh the registry had registered
\* is left in the scene, and the map and the list are empty; a dispose that
\* follows a dispose changes no state.
C21_RegistryDispose ==
  /\ [](RegistryDisposeStep =>
         /\ scene = << >>
         /\ boundingBoxMeshList = << >>
         /\ \A uuid \in EntityUUIDs : ~HasMesh(uuid))
  /\ [][(RegistryDisposeStep /\ last'.op = "registryDispose") =>
          UNCHANGED <<registry, listening, movedSincePress, selectedEntities, hoveredEntityUUID, pointerState, pending,
                      delivered>>]_vars

\* The step taken last resolved a hover hit-test.
HoverStep == last.op = "hover"

\* The mesh of a selected entity shows the selected material and is visible.
SelectedShown(mesh) ==
  mesh.entityUUID \in selectedEntities => (mesh.material = "selected" /\ mesh.visible)

\* C22: a hover update never changes the mesh of a selected entity, neither
\* when the pointer comes to hover it nor when the hover moves off it: the mesh
\* keeps the selected material and stays visible.
C22_HoverKeepsSelectedStyle ==
  /\ [](\A i \in DOMAIN boundingBoxMeshList : SelectedShown(boundingBoxMeshList[i]))
  /\ [][last'.op = "hover" =>
          \A i \in DOMAIN boundingBoxMeshList :
            boundingBoxMeshList[i].entityUUID \in selectedEntities =>
              boundingBoxMeshList'[i] = boundingBoxMeshList[i]]_vars

\* C22 case: the pointer has come to hover the selected A and A still shows
\* the selected material.
C22_Witness ==
  /\ HoverStep
  /\ last.uuid = "A"
  /\ hoveredEntityUUID = "A"
  /\ "A" \in selectedEntities
  /\ boundingBoxMeshList[meshMap["A"]].material = "selected"
  /\ boundingBoxMeshList[meshMap["A"]].visible
  /\ last.before = selectedEntities

\* C23: a hit-test result that arrives after the interaction that requested
\* it has ended is discarded.  Here: a click whose hit-test returns right after
\* an Escape or select-all key press, handled while the hit-test was in flight,
\* changes neither the selection nor any mesh.
C23_StaleClickDiscarded ==
  [][(last.op \in {"Escape", "a"} /\ last'.op = "click") =>
       UNCHANGED <<selectedEntities, boundingBoxMeshList>>]_vars

\* C24: once Select.dispose() has run, the selection set is empty and no uuid
\* is hovered, and both stay so, also when a click or hover hit-test issued
\* before the dispose returns after it; and no notification is emitted by any
\* step after the dispose.
C24_DisposedStaysCleared ==
  ~listening =>
    /\ selectedEntities = {}
    /\ ~Truthy(hoveredEntityUUID)
    /\ last.emitted = << >>

\* C25: a pointer press with another button than the primary one, or with a
\* target that is not the container, changes none of the pressed flag, the
\* dragging flag, the press origin, the overlay, the selection set and the
\* hovered uuid, whether it arrives idle, pressed or dragging.
C25_ForeignPressIgnored ==
  [][last'.op = "pointerdown ignored" =>
       UNCHANGED <<pointerState, selectedEntities, hoveredEntityUUID, registry, pending>>]_vars

\* C25 case: a secondary-button press on the container in the middle of a drag.
C25_Witness ==
  /\ last.op = "pointerdown ignored"
  /\ last.button = 2
  /\ last.onContainer
  /\ isMouseDown
  /\ isDragging
  /\ selectionBoxElement

\* The step taken last handled a pointer release, taken or ignored.
ReleaseStep == last.op \in {"pointerup", "boxSelection", "pointerup ignored"}

\* The pressed flag and the dragging flag are false and there is no overlay.
PointerReset == ~isMouseDown /\ ~isDragging /\ ~selectionBoxElement

\* C26 as stated: after any pointer-release event is handled, the pressed flag
\* and the dragging flag are false and the overlay is removed.
C26_EveryReleaseResets == ReleaseStep => PointerReset

\* C26 amended: after every release of the primary button is handled, the
\* pressed flag and the dragging flag are false and the overlay is removed; the
\* release of another button changes none of the three.
C26_PrimaryReleaseResets ==
  /\ [](ReleaseStep /\ (last.op = "pointerup ignored" => last.button = 0) => PointerReset)
  /\ [][(last'.op = "pointerup ignored" /\ last'.button # 0) => UNCHANGED pointerState]_vars

\* C26 case: a press at (2,1) released with the modifier held: the flags are
\* cleared, there is no overlay, and the click's hit-test is in flight.
C26_Witness ==
  /\ last.op = "pointerup"
  /\ PointerReset
  /\ BagIn(HitTest("click", TRUE), pending)
  /\ startPoint = [x |-> 2, y |-> 1]

\* C27: a release of the primary button resolves as a click, issuing the
\* click's hit-test, exactly when no pointer move was handled since the press
\* it ends, and as a box selection, issuing no click hit-test and removing the
\* overlay, exactly when one was; a release with no press outstanding resolves
\* as neither and changes nothing.
C27_ClickOrDrag ==
  [][/\ last'.op = "pointerup" =>
          /\ isMouseDown /\ ~movedSincePress
          /\ pending' = Issue(pending, HitTest("click", last'.isMultiSelect))
          /\ selectedEntities' = selectedEntities
     /\ last'.op = "boxSelection" =>
          /\ isMouseDown /\ movedSincePress
          /\ pending' = Issue(pending, HitTest("hover", FALSE))
          /\ ~selectionBoxElement'
     /\ last'.op = "pointerup ignored" =>
          /\ ~isMouseDown \/ last'.button # 0
          /\ UNCHANGED <<pointerState, selectedEntities, hoveredEntityUUID, registry, pending>>
    ]_vars

\* C27 case: press, move, release: resolved as a box selection, no click
\* hit-test in flight.
C27_Witness ==
  /\ BoxStep
  /\ ~BagIn(HitTest("click", TRUE), pending)
  /\ ~BagIn(HitTest("click", FALSE), pending)
  /\ BagIn(HitTest("hover", FALSE), pending)
  /\ PointerReset

\* C28: when a hover hit-test returns the uuid that is hovered already, or no
\* entity while none is hovered, no mesh changes; when it returns another, the
\* mesh hovered before gets the default material, hidden, only if its entity is
\* not selected, the mesh hovered now gets the hover material, visible, only if
\* its entity is not selected, and every other mesh stays as it is.
C28_HoverIdempotent ==
  [][last'.op = "hover" =>
       LET previous == hoveredEntityUUID
           hoveredUUID == last'.uuid
           restyled(uuid) == Truthy(uuid) /\ uuid \notin selectedEntities
       IN IF previous = hoveredUUID \/ (~Truthy(previous) /\ ~Truthy(hoveredUUID))
          THEN boundingBoxMeshList' = boundingBoxMeshList
          ELSE \A i \in DOMAIN boundingBoxMeshList :
                 LET mesh == boundingBoxMeshList[i]
                 IN boundingBoxMeshList'[i] =
                      IF mesh.entityUUID = hoveredUUID /\ restyled(hoveredUUID)
                      THEN [mesh EXCEPT !.material = "hover", !.visible = TRUE]
                      ELSE IF mesh.entityUUID = previous /\ restyled(previous)
                      THEN [mesh EXCEPT !.material = "default", !.visible = FALSE]
                      ELSE mesh]_vars

\* C28 case: the hover has moved to B, which shows the hover material, and A,
\* not selected, is back to the default material and hidden.
C28_Witness ==
  /\ HoverStep
  /\ last.uuid = "B"
  /\ hoveredEntityUUID = "B"
  /\ selectedEntities = {}
  /\ boundingBoxMeshList[meshMap["B"]].material = "hover"
  /\ boundingBoxMeshList[meshMap["A"]].material = "default"
  /\ ~boundingBoxMeshList[meshMap["A"]].visible

\* C29: in every reachable state the hovered uuid is a single value: none, or
\* the uuid of an entity that has a mesh in the registry.
C29_HoveredIsRegistered ==
  /\ hoveredEntityUUID \in EntityUUIDs \cup {Null, Undefined}
  /\ Truthy(hoveredEntityUUID) => HasMesh(hoveredEntityUUID)

\* A click awaits its hit-test.
ClickInFlight ==
  BagIn(HitTest("click", TRUE), pending) \/ BagIn(HitTest("click", FALSE), pending)

\* There is room for one more hit-test in flight.
RoomToIssue == BagCardinality(pending) < MaxPending

\* C30: while a click's hit-test has not returned, presses, moves, releases and
\* key presses are still handled and take their usual effect on the pointer
\* state and the selection, and each further drag release or shortcut emits its
\* own notification.
C30_HungHitTestStallsOnlyItsClick ==
  /\ [](ClickInFlight =>
          /\ ENABLED (\E point \in Points : OnPointerDown(point))
          /\ ENABLED (\E key \in {"Escape", "a"} : OnKeyDown(key, TRUE))
          /\ ((isMouseDown \/ RoomToIssue) => ENABLED OnPointerMove)
          /\ ((isMouseDown /\ RoomToIssue) =>
                ENABLED (\E point \in Points, isMultiSelect \in BOOLEAN :
                           OnPointerUp(point, isMultiSelect))))
  /\ [][(ClickInFlight /\ ClickInFlight') =>
          /\ last'.op = "pointerdown" => (isMouseDown' /\ ~isDragging')
          /\ (last'.op = "pointermove" /\ isMouseDown) => (isDragging' /\ selectionBoxElement')
          /\ last'.op \in {"pointerup", "boxSelection"} =>
               (~isMouseDown' /\ ~isDragging' /\ ~selectionBoxElement')
          /\ last'.op = "boxSelection" => last'.emitted = <<selectedEntities'>>
          /\ last'.op = "Escape" => (selectedEntities' = {} /\ last'.emitted = <<{}>>)
          /\ last'.op = "a" =>
               (selectedEntities' = selectedEntities \cup ListedUUIDs
                /\ last'.emitted = <<selectedEntities'>>)]_vars

\* C30 case: with a click still awaiting its hit-test, a whole press, drag and
\* release has been handled and has emitted its notification.
C30_Witness ==
  /\ ClickInFlight
  /\ BoxStep
  /\ Len(last.emitted) = 1
  /\ PointerReset

\* C31: with a perspective camera a box selection still takes place, selecting
\* only volumes inside the box around the unprojected corners, keeping the
\* previous selection under a modifier and emitting its notification; and the
\* advisory about the approximation is written at most once by a controller.
C31_PerspectiveAdvisedOnce ==
  camera.isPerspectiveCamera =>
    /\ consoleWarnings <= 1
    /\ BoxStep =>
         /\ selectedEntities \subseteq last.before \cup FullyInside
         /\ ~last.isMultiSelect => selectedEntities \subseteq FullyInside
         /\ last.isMultiSelect => last.before \subseteq selectedEntities
         /\ last.emitted = <<selectedEntities>>

\* C32: in every state each registered volume is selected and visible exactly
\* when its id is in the selection, hover and visible exactly when its id is the
\* hovered id and is not selected, and default and hidden otherwise.
C32_StyleMatchesSelection ==
  \A i \in DOMAIN boundingBoxMeshList :
    LET mesh == boundingBoxMeshList[i]
        selected == mesh.entityUUID \in selectedEntities
        hovered == mesh.entityUUID = hoveredEntityUUID /\ ~selected
    IN /\ (mesh.material = "selected" /\ mesh.visible) <=> selected
       /\ (mesh.material = "hover" /\ mesh.visible) <=> hovered
       /\ (~selected /\ ~hovered) => (mesh.material = "default" /\ ~mesh.visible)

\* C33: after a drag released with no modifier every registered entity whose
\* bounds lie fully inside the selection volume is selected, whatever happened
\* to it before: never touched, selected, or selected and deselected again.
C33_BoxIgnoresHistory ==
  (BoxStep /\ ~last.isMultiSelect) => FullyInside \subseteq selectedEntities

\* C34: notifications come in the order of the input events that caused them:
\* when a key press or a drag release emits its notification, no click released
\* before it is still waiting for its hit-test, and so for its own notification.
C34_NotificationsInInputOrder ==
  (last.op \in {"Escape", "a", "boxSelection"} /\ last.emitted # << >>) => ~ClickInFlight

\* C35: the rubber-band overlay exists exactly while the controller is dragging
\* (the pressed and the dragging flags both set); in particular it is never
\* there while the dragging flag is false.
C35_OverlayIffDragging ==
  selectionBoxElement <=> (isMouseDown /\ isDragging)

\* C36: under pointer and keyboard input alone every id in the selection is the
\* id of a registered volume, in whatever order hit-tests return.
C36_SelectedAreRegistered ==
  \A uuid \in selectedEntities : HasMesh(uuid)

\* C36 case: with only A selected, by the pointer, Ctrl+A has selected everything
\* registered while the document's C has no volume.
C36_Witness ==
  /\ last.op = "a"
  /\ last.before = {"A"}
  /\ selectedEntities = {"A", "B"}
  /\ ~HasMesh("C")

\* The meshes of the entities of a layer.
OnLayer(mesh, name) ==
  mesh.entityUUID \in EntityUUIDs /\ EntityLayer[mesh.entityUUID] = name

\* C37: ShowLayer changes neither the selection nor the registry's map, and
\* ShowLayer(name, true) leaves visible the volume of every entity of the layer
\* that is selected or hovered; so after it a selected entity's volume is
\* visible.
C37_ShowLayerKeepsSelectedVisible ==
  /\ [][last'.op = "showLayer" =>
          /\ selectedEntities' = selectedEntities
          /\ meshMap' = meshMap
          /\ last'.show =>
               \A i \in DOMAIN boundingBoxMeshList :
                 (/\ OnLayer(boundingBoxMeshList[i], last'.name)
                  /\ boundingBoxMeshList[i].visible
                  /\ \/ boundingBoxMeshList[i].entityUUID \in selectedEntities
                     \/ boundingBoxMeshList[i].entityUUID = hoveredEntityUUID)
                   => boundingBoxMeshList'[i].visible]_vars
  /\ []((last.op = "showLayer" /\ last.show) =>
          \A i \in DOMAIN boundingBoxMeshList :
            (/\ OnLayer(boundingBoxMeshList[i], last.name)
             /\ boundingBoxMeshList[i].entityUUID \in selectedEntities)
              => boundingBoxMeshList[i].visible)

\* C37 case: ShowLayer("0", true) has been called while B, an entity of that
\* layer, is selected, and the volume of B is visible.
C37_Witness ==
  /\ last.op = "showLayer"
  /\ last.show
  /\ last.name = "0"
  /\ selectedEntities = {"B"}
  /\ boundingBoxMeshList[1].visible

\* C38: at most one Select of a viewer has its listeners attached, and every
\* Select and BoundingBoxManager that Load created is disposed unless the viewer
\* still holds it; after a Clear, a Load call or a Destroy the viewer holds none,
\* so all are disposed.  This holds also when Load calls overlap.
C38_OneControllerPerViewer ==
  /\ Cardinality({i \in DOMAIN viewer.selectors : viewer.selectors[i]}) <= 1
  /\ \A i \in DOMAIN viewer.selectors : viewer.selectors[i] => viewer.selector = i
  /\ \A j \in DOMAIN viewer.managers : ~viewer.managers[j] => viewer.boundingBoxManager = j
  /\ last.op \in {"Clear", "Load", "Destroy"} =>
       /\ \A i \in DOMAIN viewer.selectors : ~viewer.selectors[i]
       /\ \A j \in DOMAIN viewer.managers : viewer.managers[j]

====
